---- MODULE Spec2Model ----
(***************************************************************************)
(* Model of the aggregate-root repositories:                               *)
(*   - InMemoryAggregateRootRepository: a dict from identity to aggregate  *)
(*     (src/api/infrastructure/in_memory_aggregate_root_repository.py);    *)
(*   - AsyncAggregateRootRepository: the *_async methods, which hand the   *)
(*     synchronous method to trio's to_thread.run_sync under a             *)
(*     CapacityLimiter                                                     *)
(*     (src/common/infrastructure/async_aggregate_root_repository.py).     *)
(*                                                                         *)
(* The async methods reach the synchronous ones through super(), so the    *)
(* model is of a class that lists the async repository before the          *)
(* in-memory one among its bases: super().exists is then the in-memory     *)
(* exists, and both work on the same _storage.                             *)
(***************************************************************************)
EXTENDS Integers, Sequences, FiniteSets, TLC

(* ------------------------------ bounds --------------------------------- *)
NumIds == 2
NumVers == 2
MaxBatch == 2
NumCalls == 2
MaxLimit == 1

IdNames == <<"a", "b", "c", "d">>

\* identities: distinct strings
Ids == {IdNames[i] : i \in 1..NumIds}

\* distinct instances that may carry the same identity
Vers == 1..NumVers

(* --------------------------- AggregateRoot ----------------------------- *)
\* An aggregate instance: its _id and, to tell instances with the same
\* identity apart, what else the instance holds.  (Records are written with
\* their fields in TLC's own order, so that the values of the definitions,
\* which TLC's workers share, are never reordered while another worker reads
\* them.)
AggregateRoot(_id, v) == [v |-> v, id |-> _id]

Aggs == {AggregateRoot(k, v) : k \in Ids, v \in Vers}

\* the read-only property id
id(aggregate) == aggregate.id

\* Python's None
NoneVal == [none |-> TRUE]

(* ------------------------------ predicates ----------------------------- *)
\* A predicate is given by the aggregates it is true of; none says that the
\* caller passed no predicate (predicate is None).
NoPred == [none |-> TRUE, sat |-> {}]

Preds ==
    {[none |-> FALSE, sat |-> {a \in Aggs : a.id = k}] : k \in Ids}
      \cup {[none |-> FALSE, sat |-> {a \in Aggs : a.v = n}] : n \in Vers}
      \cup {[none |-> FALSE, sat |-> {}], [none |-> FALSE, sat |-> Aggs]}

PredArgs == Preds \cup {NoPred}

predicate(p, agg) == agg \in p.sat

(* --------------------------- lists of aggregates ----------------------- *)
Range(s) == {s[i] : i \in DOMAIN s}

RECURSIVE SeqsUpTo(_, _)
SeqsUpTo(S, n) ==
    IF n = 0 THEN {<<>>}
    ELSE LET shorter == SeqsUpTo(S, n - 1)
         IN shorter \cup {Append(s, x) : s \in {t \in shorter : Len(t) = n - 1}, x \in S}

Batches == SeqsUpTo(Aggs, MaxBatch)

(* ------------------------------ dict ----------------------------------- *)
\* A Python dict: entries in insertion order, keys distinct.
DictKeys(d) == [i \in DOMAIN d |-> d[i].key]

DictValues(d) == [i \in DOMAIN d |-> d[i].agg]

DictContains(d, k) == \E i \in DOMAIN d : d[i].key = k

DictGet(d, k) ==
    IF DictContains(d, k)
    THEN d[CHOOSE i \in DOMAIN d : d[i].key = k].agg
    ELSE NoneVal

\* a store that adds an entry on every assignment, as a list would
DictSetAppend(d, k, a) == Append(d, [agg |-> a, key |-> k])

\* d[k] = a: an existing key keeps its place, a new key goes last
DictSet(d, k, a) ==
    IF DictContains(d, k)
    THEN [i \in DOMAIN d |-> IF d[i].key = k THEN [agg |-> a, key |-> k] ELSE d[i]]
    ELSE Append(d, [agg |-> a, key |-> k])

\* del d[k], for a key that is present
DictDel(d, k) == SelectSeq(d, LAMBDA e : e.key # k)

(* ------------------- InMemoryAggregateRootRepository ------------------- *)
\* What a call does: the storage it leaves, the value it returns, and the
\* exception it raises ("none" when it returns normally).
Outcome(st, val, exc) == [st |-> st, val |-> val, exc |-> exc]

\* the membership test replaced by True
exists_always(st, _id) == Outcome(st, TRUE, "none")

exists(st, _id) == Outcome(st, DictContains(st, _id), "none")

\* self._storage[_id] in place of self._storage.get(_id)
find_subscript(st, _id) ==
    IF DictContains(st, _id)
    THEN Outcome(st, DictGet(st, _id), "none")
    ELSE Outcome(st, NoneVal, "KeyError")

\* self._storage.pop(_id, None) in place of self._storage.get(_id)
find_pop(st, _id) == Outcome(DictDel(st, _id), DictGet(st, _id), "none")

find(st, _id) == Outcome(st, DictGet(st, _id), "none")

\* the predicate is never applied
find_all_unfiltered(st, p) == Outcome(st, DictValues(st), "none")

find_all(st, p) ==
    IF p.none
    THEN Outcome(st, DictValues(st), "none")
    ELSE Outcome(st, SelectSeq(DictValues(st), LAMBDA agg : predicate(p, agg)), "none")

find_ids(st) == Outcome(st, DictKeys(st), "none")

\* del without the membership test
delete_unguarded(st, aggregate) ==
    IF DictContains(st, id(aggregate))
    THEN Outcome(DictDel(st, id(aggregate)), NoneVal, "none")
    ELSE Outcome(st, NoneVal, "KeyError")

\* removes the entry only when it holds the very instance passed in
delete_same_instance(st, aggregate) ==
    IF DictGet(st, id(aggregate)) = aggregate
    THEN Outcome(DictDel(st, id(aggregate)), NoneVal, "none")
    ELSE Outcome(st, NoneVal, "none")

delete(st, aggregate) ==
    IF DictContains(st, id(aggregate))
    THEN Outcome(DictDel(st, id(aggregate)), NoneVal, "none")
    ELSE Outcome(st, NoneVal, "none")

\* popitem() in place of clear(): only the newest entry goes
delete_all_popitem(st) ==
    IF st = <<>>
    THEN Outcome(st, NoneVal, "none")
    ELSE Outcome(SubSeq(st, 1, Len(st) - 1), NoneVal, "none")

delete_all(st) == Outcome(<<>>, NoneVal, "none")

\* setdefault: an identity already stored keeps its aggregate
save_setdefault(st, aggregate) ==
    IF DictContains(st, id(aggregate))
    THEN Outcome(st, NoneVal, "none")
    ELSE Outcome(DictSet(st, id(aggregate), aggregate), NoneVal, "none")

save(st, aggregate) == Outcome(DictSet(st, id(aggregate), aggregate), NoneVal, "none")

\* the loop stops after its first element
save_all_first_only(st, aggregates) ==
    IF aggregates = <<>>
    THEN Outcome(st, NoneVal, "none")
    ELSE Outcome(DictSet(st, id(Head(aggregates)), Head(aggregates)), NoneVal, "none")

\* the loop runs over reversed(aggregates)
RECURSIVE save_all_reversed(_, _)
save_all_reversed(st, aggregates) ==
    IF aggregates = <<>>
    THEN Outcome(st, NoneVal, "none")
    ELSE save_all_reversed(
             DictSet(st, id(aggregates[Len(aggregates)]), aggregates[Len(aggregates)]),
             SubSeq(aggregates, 1, Len(aggregates) - 1))

\* every element is stored under the identity of the first
RECURSIVE save_all_first_key(_, _)
save_all_first_key(st, aggregates) ==
    IF aggregates = <<>>
    THEN Outcome(st, NoneVal, "none")
    ELSE LET rest == save_all_first_key(st, SubSeq(aggregates, 1, Len(aggregates) - 1))
         IN  Outcome(DictSet(rest.st, id(aggregates[1]), aggregates[Len(aggregates)]),
                     NoneVal, "none")

RECURSIVE save_all(_, _)
save_all(st, aggregates) ==
    IF aggregates = <<>>
    THEN Outcome(st, NoneVal, "none")
    ELSE save_all(DictSet(st, id(Head(aggregates)), Head(aggregates)), Tail(aggregates))

(* ------------------------------ state ---------------------------------- *)
VARIABLES
    storage,      \* self._storage
    lastOp,       \* the call that ended in the last step ("init": none did)
    ret,          \* what that call returned or raised
    prev,         \* self._storage before the last step
    tracked,      \* history: identities saved and not removed since
    max_threads,  \* the argument of the constructor
    borrowers,    \* self._thread_limiter: the calls that hold a token
    pc,           \* where each async call stands
    call,         \* the method and arguments of each async call
    local,        \* the worker thread's position in a call it is running
    aggregate_type,   \* the type the constructor is called with
    _aggregate_type,  \* self._aggregate_type ("unset" until __init__ assigns it)
    thrown,       \* the exception raised beneath the call that ended in the last step
    held,         \* the list the call before the last returned, as its caller reads it now
    lot,          \* self._thread_limiter: the calls parked for a token, oldest first
    caller        \* what the task that issues the calls of a slot is doing

vars == <<storage, lastOp, ret, prev, tracked, max_threads, borrowers, pc, call, local,
          aggregate_type, _aggregate_type, thrown, held, lot, caller>>

storeVars == <<storage, lastOp, ret, prev, tracked>>

ctorVars == <<aggregate_type, _aggregate_type>>

asyncVars == <<max_threads, borrowers, pc, call, local, lot, caller>>

\* the async calls the caller may have in flight at once
Calls == 1..NumCalls

DefaultMaxThreads == 5

\* the worker limits a repository is constructed with
Limits == (1..MaxLimit) \cup {DefaultMaxThreads}

Op(name, _id, agg, aggs, p, via) ==
    [id |-> _id, agg |-> agg, aggs |-> aggs, via |-> via, op |-> name, pred |-> p]

NoOp == Op("init", "", NoneVal, <<>>, NoPred, "sync")

Result(o) == [val |-> o.val, exc |-> o.exc]

Returned(v) == [val |-> v, exc |-> "none"]

NoLocal == [i |-> 0, acc |-> <<>>, size |-> 0]

\* a task that issues any call at any time
Free == [agg |-> NoneVal, prog |-> "free", seen |-> "unknown", wrote |-> 0]

\* no list is held
NoHeld == [op |-> NoOp, live |-> FALSE, items |-> <<>>, age |-> 0]

\* the arguments the constructor is tried with: a subclass of AggregateRoot, a
\* type that is none, and a value that is no type
TypeArgs == {"Order", "int", "'Order'"}

\* isinstance(aggregate_type, type)
isinstance_type(t) == t \in {"Order", "int"}

\* issubclass(aggregate_type, AggregateRoot)
issubclass_AggregateRoot(t) == t \in {"Order"}

\* the second test left out
AggregateRootRepository__init__any_type(t) ==
    IF ~isinstance_type(t) THEN "TypeError" ELSE "none"

\* AggregateRootRepository.__init__: the exception it raises, "none" if it
\* assigns self._aggregate_type
AggregateRootRepository__init__(t) ==
    IF ~isinstance_type(t)
    THEN "TypeError"
    ELSE IF ~issubclass_AggregateRoot(t)
    THEN "TypeError"
    ELSE "none"

\* the repository object once its constructor has returned
__init__ ==
    /\ aggregate_type \in {t \in TypeArgs : AggregateRootRepository__init__(t) = "none"}
    /\ _aggregate_type = aggregate_type
    /\ thrown = "none"
    /\ held = NoHeld
    /\ lot = <<>>
    /\ caller = [c \in Calls |-> Free]
    /\ storage = <<>>
    /\ lastOp = NoOp
    /\ ret = Returned(NoneVal)
    /\ prev = <<>>
    /\ tracked = {}
    /\ max_threads \in Limits
    /\ borrowers = {}
    /\ pc = [c \in Calls |-> "idle"]
    /\ call = [c \in Calls |-> NoOp]
    /\ local = [c \in Calls |-> NoLocal]

Init == __init__

\* the identities saved and not removed once call op has ended normally
Track(op) ==
    CASE op.op = "save" -> tracked \cup {op.agg.id}
      [] op.op = "save_all" -> tracked \cup {op.aggs[i].id : i \in DOMAIN op.aggs}
      [] op.op = "delete" -> tracked \ {op.agg.id}
      [] op.op = "delete_all" -> {}
      [] OTHER -> tracked

\* find_ids hands out the view self._storage.keys()
ReturnsKeysView(op) == op.op = "find_ids"

\* whether the sequence a query returns is a view of the dict: list(...) and
\* the list comprehension build a new list
ReturnsView(op) == FALSE

ReturnsList(op) == op.op \in {"find_all", "find_ids"}

\* The list the caller holds once call op has ended with outcome o: the one
\* this call returned, or the one the call before it returned, read after
\* this call (a view shows the dict as it is now, a list what it was given).
Hold(op, o) ==
    IF ReturnsList(op) /\ o.exc = "none"
    THEN [op |-> op, live |-> ReturnsView(op), items |-> o.val, age |-> 0]
    ELSE IF ReturnsList(held.op) /\ held.age = 0
    THEN [op |-> held.op,
          live |-> held.live,
          items |-> IF held.live
                    THEN (CASE held.op.op = "find_ids" -> find_ids(o.st)
                            [] OTHER -> find_all(o.st, held.op.pred)).val
                    ELSE held.items,
          age |-> 1]
    ELSE NoHeld

\* A call ends: op is the call, o the outcome of the code beneath it on
\* storage, r what the caller receives.
Ends(op, o, r) ==
    /\ lastOp' = op
    /\ prev' = storage
    /\ storage' = o.st
    /\ ret' = r
    /\ thrown' = o.exc
    /\ tracked' = IF o.exc = "none" THEN Track(op) ELSE tracked
    /\ held' = IF op.via = "sync" THEN Hold(op, o) ELSE held
    /\ UNCHANGED ctorVars

\* A call ends with outcome o and the caller receives it.
Call(op, o) == Ends(op, o, Result(o))

(* ---------------------- the synchronous methods ------------------------ *)
CallExists ==
    /\ \E k \in Ids : Call(Op("exists", k, NoneVal, <<>>, NoPred, "sync"), exists(storage, k))
    /\ UNCHANGED asyncVars

CallFind ==
    /\ \E k \in Ids : Call(Op("find", k, NoneVal, <<>>, NoPred, "sync"), find(storage, k))
    /\ UNCHANGED asyncVars

CallFindAll ==
    /\ \E p \in PredArgs :
           Call(Op("find_all", "", NoneVal, <<>>, p, "sync"), find_all(storage, p))
    /\ UNCHANGED asyncVars

CallFindIds ==
    /\ Call(Op("find_ids", "", NoneVal, <<>>, NoPred, "sync"), find_ids(storage))
    /\ UNCHANGED asyncVars

CallDelete ==
    /\ \E a \in Aggs : Call(Op("delete", "", a, <<>>, NoPred, "sync"), delete(storage, a))
    /\ UNCHANGED asyncVars

CallDeleteAll ==
    /\ Call(Op("delete_all", "", NoneVal, <<>>, NoPred, "sync"), delete_all(storage))
    /\ UNCHANGED asyncVars

CallSave ==
    /\ \E a \in Aggs : Call(Op("save", "", a, <<>>, NoPred, "sync"), save(storage, a))
    /\ UNCHANGED asyncVars

CallSaveAll ==
    /\ \E as \in Batches :
           Call(Op("save_all", "", NoneVal, as, NoPred, "sync"), save_all(storage, as))
    /\ UNCHANGED asyncVars

\* the methods that take at most one aggregate; they reach every store that
\* the eight methods reach
NextOne ==
    \/ CallExists
    \/ CallFind
    \/ CallFindAll
    \/ CallFindIds
    \/ CallDelete
    \/ CallDeleteAll
    \/ CallSave

SpecOne == Init /\ [][NextOne]_vars

Next ==
    \/ NextOne
    \/ CallSaveAll

Spec == Init /\ [][Next]_vars

(* ----------------------------- construction ---------------------------- *)
\* before the constructor is called
Unbuilt ==
    /\ aggregate_type \in TypeArgs
    /\ _aggregate_type = "unset"
    /\ thrown = "none"
    /\ held = NoHeld
    /\ lot = <<>>
    /\ caller = [c \in Calls |-> Free]
    /\ storage = <<>>
    /\ lastOp = NoOp
    /\ ret = Returned(NoneVal)
    /\ prev = <<>>
    /\ tracked = {}
    /\ max_threads \in Limits
    /\ borrowers = {}
    /\ pc = [c \in Calls |-> "idle"]
    /\ call = [c \in Calls |-> NoOp]
    /\ local = [c \in Calls |-> NoLocal]

\* the constructor has returned: there is a repository to call
Built == _aggregate_type # "unset"

\* the constructor call: super().__init__(aggregate_type) reaches
\* AggregateRootRepository.__init__ first; only if that returns are
\* self._storage = {} and the limiter set
New ==
    /\ ~Built
    /\ lastOp = NoOp
    /\ lastOp' = Op("__init__", "", NoneVal, <<>>, NoPred, "sync")
    /\ ret' = [val |-> NoneVal, exc |-> AggregateRootRepository__init__(aggregate_type)]
    /\ thrown' = AggregateRootRepository__init__(aggregate_type)
    /\ _aggregate_type' = IF AggregateRootRepository__init__(aggregate_type) = "none"
                          THEN aggregate_type
                          ELSE "unset"
    /\ storage' = <<>>
    /\ prev' = storage
    /\ UNCHANGED <<aggregate_type, tracked, held>>
    /\ UNCHANGED asyncVars

NextNew ==
    \/ New
    \/ Built /\ CallExists
    \/ Built /\ CallFind
    \/ Built /\ CallFindAll
    \/ Built /\ CallFindIds
    \/ Built /\ CallDelete
    \/ Built /\ CallDeleteAll
    \/ Built /\ CallSave

SpecNew == Unbuilt /\ [][NextNew]_vars

(* -------------------- AsyncAggregateRootRepository --------------------- *)
\* super().<method>(<arguments>): the synchronous method an async method names
SyncCall(op, st) ==
    CASE op.op = "exists" -> exists(st, op.id)
      [] op.op = "find" -> find(st, op.id)
      [] op.op = "find_all" -> find_all(st, op.pred)
      [] op.op = "find_ids" -> find_ids(st)
      [] op.op = "delete" -> delete(st, op.agg)
      [] op.op = "delete_all" -> delete_all(st)
      [] op.op = "save" -> save(st, op.agg)
      [] op.op = "save_all" -> save_all(st, op.aggs)

\* A step of an async call that ends no call and leaves the store alone.
NoCallEnds ==
    /\ lastOp' = NoOp
    /\ ret' = Returned(NoneVal)
    /\ prev' = storage
    /\ thrown' = "none"
    /\ UNCHANGED <<storage, tracked, held, aggregate_type, _aggregate_type, caller>>

\* a limiter that hands out tokens without counting them
TokensUncounted == TRUE

\* CapacityLimiter(max_threads): a token is free
TokensAvailable == Cardinality(borrowers) < max_threads

\* Whether the task of slot c issues call op now. A task that runs
\* save_async(a) issues it once; a task that runs
\*     if not await (await repo.exists_async(a.id)):
\*         await (await repo.save_async(a))
\* issues exists_async, and save_async once it has seen the identity absent.
MayIssue(c, op) ==
    CASE caller[c].prog = "free" -> TRUE
      [] caller[c].prog = "save" ->
             op.op = "save" /\ op.agg = caller[c].agg /\ caller[c].wrote = 0
      [] caller[c].prog = "check_then_save" ->
             \/ /\ op.op = "exists"
                /\ op.id = id(caller[c].agg)
                /\ caller[c].seen = "unknown"
             \/ /\ op.op = "save"
                /\ op.agg = caller[c].agg
                /\ caller[c].seen = "absent"
                /\ caller[c].wrote = 0

\* the tasks whose save has run
Writers == {d \in Calls : caller[d].wrote > 0}

\* What the task of slot c knows once its call op has ended with r: what
\* exists returned, and the place of its save among the saves that ran.
Observe(c, op, r) ==
    IF caller[c].prog = "free"
    THEN caller[c]
    ELSE [agg |-> caller[c].agg,
          prog |-> caller[c].prog,
          seen |-> IF op.op = "exists" /\ r.exc = "none"
                   THEN (IF r.val THEN "present" ELSE "absent")
                   ELSE caller[c].seen,
          wrote |-> IF op.op = "save" /\ r.exc = "none"
                    THEN Cardinality(Writers) + 1
                    ELSE caller[c].wrote]

\* return to_thread.run_sync(super().<method>, <argument>, limiter=...): the
\* async method returns the coroutine of run_sync, which has not started
run_sync(c, op) ==
    /\ pc[c] = "idle"
    /\ MayIssue(c, op)
    /\ pc' = [pc EXCEPT ![c] = "coroutine"]
    /\ call' = [call EXCEPT ![c] = op]
    /\ NoCallEnds /\ UNCHANGED <<max_threads, borrowers, local, lot>>

\* return to_thread.run_sync(super().<method>, args=(), limiter=...): run_sync
\* takes no keyword args, so the call raises TypeError
run_sync_args(c, op) ==
    /\ pc[c] = "idle"
    /\ MayIssue(c, op)
    /\ Call(op, Outcome(storage, NoneVal, "TypeError"))
    /\ UNCHANGED asyncVars

exists_async(c) ==
    \E k \in Ids : run_sync(c, Op("exists", k, NoneVal, <<>>, NoPred, "async"))

find_async(c) ==
    \E k \in Ids : run_sync(c, Op("find", k, NoneVal, <<>>, NoPred, "async"))

find_all_async(c) ==
    \E p \in PredArgs : run_sync(c, Op("find_all", "", NoneVal, <<>>, p, "async"))

find_ids_async(c) ==
    run_sync_args(c, Op("find_ids", "", NoneVal, <<>>, NoPred, "async"))

delete_async(c) ==
    \E a \in Aggs : run_sync(c, Op("delete", "", a, <<>>, NoPred, "async"))

delete_all_async(c) ==
    run_sync_args(c, Op("delete_all", "", NoneVal, <<>>, NoPred, "async"))

save_async(c) ==
    \E a \in Aggs : run_sync(c, Op("save", "", a, <<>>, NoPred, "async"))

\* the class defines no save_all_async: the attribute lookup fails
save_all_async(c) ==
    /\ pc[c] = "idle"
    /\ caller[c].prog = "free"
    /\ \E as \in Batches :
           Call(Op("save_all", "", NoneVal, as, NoPred, "async"),
                Outcome(storage, NoneVal, "AttributeError"))
    /\ UNCHANGED asyncVars

\* the caller awaits the coroutine it was handed: run_sync starts and asks
\* the limiter for a token, behind the calls that asked before it
Await(c) ==
    /\ pc[c] = "coroutine"
    /\ pc' = [pc EXCEPT ![c] = "waiting"]
    /\ lot' = Append(lot, c)
    /\ NoCallEnds /\ UNCHANGED <<max_threads, borrowers, call, local>>

\* the limiter takes back the token of call c
Release(b, c) == b \ {c}

\* the limiter grants the token to the call that has waited longest and the
\* worker thread starts
Acquire(c) ==
    /\ pc[c] = "waiting"
    /\ lot # <<>> /\ Head(lot) = c
    /\ TokensAvailable
    /\ borrowers' = borrowers \cup {c}
    /\ lot' = Tail(lot)
    /\ pc' = [pc EXCEPT ![c] = "running"]
    /\ NoCallEnds /\ UNCHANGED <<max_threads, call, local>>

\* every exception comes out as one error of the repository
PropagateWrapped(o) ==
    [val |-> o.val, exc |-> IF o.exc = "none" THEN "none" ELSE "RepositoryError"]

\* return to_thread.run_sync(...): nothing stands between run_sync and the
\* caller, who receives the value or the exception as the thread left it
Propagate(o) == [val |-> o.val, exc |-> o.exc]

\* the synchronous method ends with outcome o: run_sync gives the token back
\* and hands the value or the exception to the caller that awaits it (one
\* step: nothing else of the repository runs in between)
Finish(c, o) ==
    /\ Ends(call[c], o, Propagate(o))
    /\ caller' = [caller EXCEPT ![c] = Observe(c, call[c], Propagate(o))]
    /\ borrowers' = Release(borrowers, c)
    /\ pc' = [pc EXCEPT ![c] = "idle"]
    /\ call' = [call EXCEPT ![c] = NoOp]
    /\ local' = [local EXCEPT ![c] = NoLocal]
    /\ UNCHANGED <<max_threads, lot>>

\* exists, find, save and find_all without a predicate: one dict operation
RunSync(c) ==
    /\ pc[c] = "running"
    /\ \/ call[c].op \in {"exists", "find", "save"}
       \/ call[c].op = "find_all" /\ call[c].pred.none
    /\ Finish(c, SyncCall(call[c], storage))

\* find_all with a predicate: the comprehension starts to iterate over
\* self._storage.values()
RunFindAll(c) ==
    /\ pc[c] = "running"
    /\ call[c].op = "find_all" /\ ~call[c].pred.none
    /\ pc' = [pc EXCEPT ![c] = "iterating"]
    /\ local' = [local EXCEPT ![c] = [i |-> 0, acc |-> <<>>, size |-> Len(storage)]]
    /\ NoCallEnds /\ UNCHANGED <<max_threads, borrowers, call, lot>>

\* the next step of the iteration; other threads may have run since the last
\* one, and a dict that changed size makes the iterator raise RuntimeError.
\* The iterator goes by position, in the order the entries are held.
IterNext(c) ==
    /\ pc[c] = "iterating"
    /\ IF Len(storage) # local[c].size
       THEN Finish(c, Outcome(storage, NoneVal, "RuntimeError"))
       ELSE IF local[c].i = Len(storage)
       THEN Finish(c, Outcome(storage, local[c].acc, "none"))
       ELSE /\ local' = [local EXCEPT ![c] =
                   [i |-> @.i + 1,
                    acc |-> IF predicate(call[c].pred, storage[@.i + 1].agg)
                            THEN Append(@.acc, storage[@.i + 1].agg)
                            ELSE @.acc,
                    size |-> @.size]]
            /\ NoCallEnds /\ UNCHANGED <<max_threads, borrowers, pc, call, lot>>

\* delete: if aggregate.id in self._storage
RunDelete(c) ==
    /\ pc[c] = "running"
    /\ call[c].op = "delete"
    /\ IF DictContains(storage, id(call[c].agg))
       THEN /\ pc' = [pc EXCEPT ![c] = "checked"]
            /\ NoCallEnds /\ UNCHANGED <<max_threads, borrowers, call, local, lot>>
       ELSE Finish(c, Outcome(storage, NoneVal, "none"))

\* delete: del self._storage[aggregate.id]; another thread may have removed
\* the key since the test
DelEntry(c) ==
    /\ pc[c] = "checked"
    /\ IF DictContains(storage, id(call[c].agg))
       THEN Finish(c, Outcome(DictDel(storage, id(call[c].agg)), NoneVal, "none"))
       ELSE Finish(c, Outcome(storage, NoneVal, "KeyError"))

NextAsync ==
    \E c \in Calls :
        \/ exists_async(c)
        \/ find_async(c)
        \/ find_all_async(c)
        \/ find_ids_async(c)
        \/ delete_async(c)
        \/ delete_all_async(c)
        \/ save_async(c)
        \/ save_all_async(c)
        \/ Await(c)
        \/ Acquire(c)
        \/ RunSync(c)
        \/ RunFindAll(c)
        \/ IterNext(c)
        \/ RunDelete(c)
        \/ DelEntry(c)

SpecAsync == Init /\ [][NextAsync]_vars

\* The caller awaits the coroutine it was handed, the limiter hands a free
\* token to the call at the head of its lot, and a worker thread that has
\* started goes on until its method returns or raises.
Fairness ==
    \A c \in Calls :
        /\ WF_vars(Await(c))
        /\ WF_vars(Acquire(c))
        /\ WF_vars(RunSync(c) \/ RunDelete(c) \/ DelEntry(c))

\* the async methods whose synchronous method returns None, and the steps
\* of their calls
NextReturnsNone ==
    \E c \in Calls :
        \/ find_ids_async(c)
        \/ delete_async(c)
        \/ delete_all_async(c)
        \/ save_async(c)
        \/ Await(c)
        \/ Acquire(c)
        \/ RunSync(c)
        \/ RunDelete(c)
        \/ DelEntry(c)

SpecAsyncFair == Init /\ [][NextReturnsNone]_vars /\ Fairness

(* --------------------- tasks that race for an identity ----------------- *)
\* a store that saves have led to, with at most one entry
SmallStores == {<<>>} \cup {<<[agg |-> a, key |-> id(a)]>> : a \in Aggs}

\* One task per slot; all run the same program, each with an aggregate of
\* its own, and the aggregates have one identity.
InitCallers ==
    /\ aggregate_type \in {t \in TypeArgs : AggregateRootRepository__init__(t) = "none"}
    /\ _aggregate_type = aggregate_type
    /\ thrown = "none"
    /\ held = NoHeld
    /\ lot = <<>>
    /\ \E prog \in {"save", "check_then_save"}, k \in Ids :
           caller \in [Calls -> {[agg |-> a, prog |-> prog, seen |-> "unknown", wrote |-> 0] :
                                     a \in {b \in Aggs : id(b) = k}}]
    /\ storage \in SmallStores
    /\ lastOp = NoOp
    /\ ret = Returned(NoneVal)
    /\ prev = storage
    /\ tracked = Range(DictKeys(storage))
    /\ max_threads \in Limits
    /\ borrowers = {}
    /\ pc = [c \in Calls |-> "idle"]
    /\ call = [c \in Calls |-> NoOp]
    /\ local = [c \in Calls |-> NoLocal]

NextCallers ==
    \E c \in Calls :
        \/ exists_async(c)
        \/ save_async(c)
        \/ Await(c)
        \/ Acquire(c)
        \/ RunSync(c)

SpecCallers == InitCallers /\ [][NextCallers]_vars

(* ------------------------------ properties ----------------------------- *)
NoDuplicates(s) == \A i, j \in DOMAIN s : s[i] = s[j] => i = j

\* C1: immediately after save(a), whatever the store held before,
\* exists(a.id) returns true and find(a.id) returns a.
C1_SaveThenExistsAndFind ==
    lastOp.op = "save" =>
        /\ ret = Returned(NoneVal)
        /\ Result(exists(storage, lastOp.agg.id)) = Returned(TRUE)
        /\ Result(find(storage, lastOp.agg.id)) = Returned(lastOp.agg)

\* save(a) has just run on a store that held another aggregate under a.id
\* and an entry under another identity
C1_Witness ==
    /\ lastOp.op = "save"
    /\ DictContains(prev, lastOp.agg.id)
    /\ DictGet(prev, lastOp.agg.id) # lastOp.agg
    /\ Len(prev) > 1

\* C2: after any sequence of save, save_all, delete and delete_all from the
\* empty store, find_ids() returns exactly the identities saved and not
\* removed since, each once.
C2_FindIdsAreTheLiveIds ==
    /\ find_ids(storage).exc = "none"
    /\ Range(find_ids(storage).val) = tracked
    /\ NoDuplicates(find_ids(storage).val)
    /\ lastOp.op = "find_ids" => ret = Returned(find_ids(prev).val) /\ Range(ret.val) = tracked

\* delete has just removed one of several stored identities, so find_ids()
\* has an identity to leave out and one to report
C2_Witness ==
    /\ lastOp.op = "delete"
    /\ DictContains(prev, lastOp.agg.id)
    /\ find_ids(storage).val # <<>>
    /\ lastOp.agg.id \notin Range(find_ids(storage).val)

\* C3: for an identity never saved, or removed and not saved since,
\* exists returns false and find returns None, without raising.
C3_AbsentIdentity ==
    /\ \A k \in Ids \ tracked :
           /\ Result(exists(storage, k)) = Returned(FALSE)
           /\ Result(find(storage, k)) = Returned(NoneVal)
    /\ lastOp.op = "exists" /\ lastOp.id \notin tracked => ret = Returned(FALSE)
    /\ lastOp.op = "find" /\ lastOp.id \notin tracked => ret = Returned(NoneVal)

\* find(k) has just been called for an identity that is not stored, on a
\* store that holds another identity
C3_Witness ==
    /\ lastOp.op = "find"
    /\ lastOp.id \notin tracked
    /\ storage # <<>>

\* C4: when save(a2) follows a store holding a1 # a2 under the same identity,
\* find returns a2, neither find nor find_all returns a1, and the identity
\* is in find_ids() exactly once.
C4_Overwrite ==
    LET a2 == lastOp.agg
        a1 == DictGet(prev, a2.id)
    IN  (lastOp.op = "save" /\ DictContains(prev, a2.id) /\ a1 # a2) =>
            /\ find(storage, a2.id).val = a2
            /\ \A k \in Ids : find(storage, k).val # a1
            /\ a1 \notin Range(find_all(storage, NoPred).val)
            /\ Cardinality({i \in DOMAIN find_ids(storage).val :
                               find_ids(storage).val[i] = a2.id}) = 1

\* save(a2) has just replaced a different aggregate with the same identity
C4_Witness ==
    /\ lastOp.op = "save"
    /\ DictContains(prev, lastOp.agg.id)
    /\ DictGet(prev, lastOp.agg.id) # lastOp.agg
    /\ DictGet(storage, lastOp.agg.id) = lastOp.agg

\* the stored aggregates a predicate is true of
Satisfying(st, p) == {i \in DOMAIN st : p.none \/ st[i].agg \in p.sat}

\* C7: find_all(p) returns exactly the stored aggregates p is true of, each
\* once; find_all() without a predicate returns every stored aggregate.
C7_FindAllIsTheFilter ==
    lastOp.op = "find_all" =>
        /\ ret.exc = "none"
        /\ Range(ret.val) = {prev[i].agg : i \in Satisfying(prev, lastOp.pred)}
        /\ Len(ret.val) = Cardinality(Satisfying(prev, lastOp.pred))
        /\ lastOp.pred.none => Len(ret.val) = Len(prev)

\* find_all(p) has just returned some of the stored aggregates and left
\* others out
C7_Witness ==
    /\ lastOp.op = "find_all"
    /\ ~lastOp.pred.none
    /\ ret.val # <<>>
    /\ Len(ret.val) < Len(prev)

\* C8: after delete_all(), whatever the store held, find_ids() and
\* find_all() return empty sequences and exists(k) is false for every k.
C8_DeleteAllEmpties ==
    lastOp.op = "delete_all" =>
        /\ ret = Returned(NoneVal)
        /\ Result(find_ids(storage)) = Returned(<<>>)
        /\ Result(find_all(storage, NoPred)) = Returned(<<>>)
        /\ \A k \in Ids : Result(exists(storage, k)) = Returned(FALSE)

\* delete_all() has just run on a store with more than one entry
C8_Witness ==
    /\ lastOp.op = "delete_all"
    /\ Len(prev) > 1

\* C9: delete(aggregate) when aggregate.id is not stored raises nothing and
\* leaves the store as it was.
C9_DeleteAbsentIsNoOp ==
    (lastOp.op = "delete" /\ ~DictContains(prev, lastOp.agg.id)) =>
        /\ ret = Returned(NoneVal)
        /\ storage = prev

\* delete(aggregate) has just run on a non-empty store that does not hold
\* aggregate.id
C9_Witness ==
    /\ lastOp.op = "delete"
    /\ ~DictContains(prev, lastOp.agg.id)
    /\ prev # <<>>

\* C10: delete(aggregate) removes the entry under aggregate.id whichever
\* instance is stored there, and leaves the entries of other identities as
\* they were.
C10_DeleteByIdentity ==
    lastOp.op = "delete" =>
        /\ ~DictContains(storage, lastOp.agg.id)
        /\ SelectSeq(prev, LAMBDA e : e.key # lastOp.agg.id) = storage
        /\ \A k \in Ids \ {lastOp.agg.id} : DictGet(storage, k) = DictGet(prev, k)

\* delete(aggregate) has just removed an entry that held another instance,
\* from a store that also held another identity
C10_Witness ==
    /\ lastOp.op = "delete"
    /\ DictContains(prev, lastOp.agg.id)
    /\ DictGet(prev, lastOp.agg.id) # lastOp.agg
    /\ Len(storage) > 0
    /\ ~DictContains(storage, lastOp.agg.id)

\* the calls whose synchronous method a worker thread is executing
Executing == {c \in Calls : pc[c] \in {"running", "iterating", "checked"}}

\* C5: an async method, called and awaited to its end, yields what the
\* synchronous method yields on the same store with the same arguments, and
\* leaves the store as the synchronous method leaves it.
C5_AsyncEqualsSync ==
    lastOp.via = "async" =>
        /\ ret = Result(SyncCall(lastOp, prev))
        /\ storage = SyncCall(lastOp, prev).st

\* C6: at most max_threads synchronous calls execute at the same time,
\* however many async calls have been issued.
C6_ConcurrencyCap == Cardinality(Executing) <= max_threads

\* as many calls execute as the limit allows while another call, issued and
\* awaited, waits for a token
C6_Witness ==
    /\ Cardinality(Executing) = max_threads
    /\ \E c \in Calls : pc[c] = "waiting"

\* what the four queries show of a store
Observable(st) ==
    [exists |-> [k \in Ids |-> Result(exists(st, k))],
     find |-> [k \in Ids |-> Result(find(st, k))],
     find_all |-> Result(find_all(st, NoPred)),
     find_ids |-> Result(find_ids(st))]

\* C11: save(a) followed by save(a) leaves exists, find, find_all and
\* find_ids as the first save(a) left them.
C11_SaveIdempotent ==
    [][(lastOp.op = "save" /\ lastOp'.op = "save" /\ lastOp'.agg = lastOp.agg)
          => /\ Observable(storage') = Observable(storage)
             /\ ret' = Returned(NoneVal)]_vars

\* save(a) has just run a second time in a row, on a store with another
\* entry besides a's
C11_Witness ==
    /\ lastOp.op = "save"
    /\ DictGet(prev, lastOp.agg.id) = lastOp.agg
    /\ storage = prev
    /\ Len(storage) > 1

\* save applied to each element of a list, in list order
RECURSIVE SaveEach(_, _, _)
SaveEach(st, aggregates, i) ==
    IF i > Len(aggregates)
    THEN st
    ELSE SaveEach(save(st, aggregates[i]).st, aggregates, i + 1)

\* C12: save_all(aggregates) leaves the store as save on each element in
\* list order leaves it; of two elements with one identity the later one is
\* stored.
C12_SaveAllIsSaveEach ==
    lastOp.op = "save_all" =>
        /\ ret = Returned(NoneVal)
        /\ storage = SaveEach(prev, lastOp.aggs, 1)
        /\ \A i \in DOMAIN lastOp.aggs :
               (\A j \in DOMAIN lastOp.aggs : j > i => lastOp.aggs[j].id # lastOp.aggs[i].id)
                   => find(storage, lastOp.aggs[i].id).val = lastOp.aggs[i]

\* save_all has just run on a list whose two elements are different
\* instances with one identity
C12_Witness ==
    /\ lastOp.op = "save_all"
    /\ Len(lastOp.aggs) = 2
    /\ lastOp.aggs[1].id = lastOp.aggs[2].id
    /\ lastOp.aggs[1] # lastOp.aggs[2]
    /\ prev # <<>>

\* C19: every entry is stored under the id of the aggregate it holds, and
\* the ids of the aggregates of find_all() are the identities of find_ids().
C19_KeyIsIdentity ==
    /\ \A k \in Range(find_ids(storage).val) : find(storage, k).val.id = k
    /\ \A i \in DOMAIN storage : storage[i].key = storage[i].agg.id
    /\ {a.id : a \in Range(find_all(storage, NoPred).val)} = Range(find_ids(storage).val)

\* save_all has just stored two aggregates with different identities
C19_Witness ==
    /\ lastOp.op = "save_all"
    /\ Len(lastOp.aggs) = 2
    /\ lastOp.aggs[1].id # lastOp.aggs[2].id
    /\ Len(storage) = 2

\* C20: exists, find, find_all and find_ids leave the store as it was, also
\* when the identity asked for is absent.
C20_QueriesChangeNothing ==
    lastOp.op \in {"exists", "find", "find_all", "find_ids"} =>
        /\ storage = prev
        /\ ret.exc = "none"

\* exists has just been asked for an identity that a non-empty store does
\* not hold
C20_Witness ==
    /\ lastOp.op = "exists"
    /\ ~DictContains(prev, lastOp.id)
    /\ prev # <<>>

\* the calls that change the store
Mutators == {"save", "save_all", "delete", "delete_all"}

\* C18: the sequence find_all() or find_ids() returned keeps its contents
\* when save, save_all, delete or delete_all runs after the call returned.
C18_ReturnedListIsSnapshot ==
    (held.age = 1 /\ lastOp.op \in Mutators) =>
        held.items = (CASE held.op.op = "find_ids" -> find_ids(prev).val
                        [] OTHER -> find_all(prev, held.op.pred).val)

\* find_ids() returned a list and the delete that followed removed one of
\* the identities in it
C18_Witness ==
    /\ held.age = 1
    /\ held.op.op = "find_ids"
    /\ lastOp.op = "delete"
    /\ lastOp.agg.id \in Range(held.items)
    /\ ~DictContains(storage, lastOp.agg.id)

\* C14: a constructor argument that is no type, or a type that is no
\* subclass of AggregateRoot, makes the constructor raise TypeError and
\* leaves no repository to call; a subclass makes it return with an empty
\* store.
C14_ConstructorChecksType ==
    /\ Built => isinstance_type(aggregate_type) /\ issubclass_AggregateRoot(aggregate_type)
    /\ (lastOp.op = "__init__" /\ aggregate_type # "Order") =>
           ret.exc = "TypeError" /\ ~Built
    /\ aggregate_type # "Order" => lastOp.op \in {"init", "__init__"} /\ storage = <<>>
    /\ (lastOp.op = "__init__" /\ aggregate_type = "Order") =>
           /\ ret = Returned(NoneVal)
           /\ Built
           /\ find_ids(storage).val = <<>>
           /\ find_all(storage, NoPred).val = <<>>

\* the constructor was called with a type that is no subclass of
\* AggregateRoot and raised TypeError
C14_Witness ==
    /\ lastOp.op = "__init__"
    /\ aggregate_type = "int"
    /\ ret.exc = "TypeError"
    /\ ~Built

\* C13: when the synchronous method raises, the caller of the async method
\* receives that exception, not another one and not a value, and the failed
\* call is over: the method is not started a second time.
C13_FailurePropagates ==
    /\ []((lastOp.via = "async" /\ thrown # "none") => ret.exc = thrown)
    /\ [][\A c \in Executing :
              (thrown' # "none" /\ lastOp' = call[c] /\ pc'[c] # pc[c])
                  => /\ pc'[c] = "idle"
                     /\ c \notin borrowers'
                     /\ ret'.exc = thrown']_vars
    /\ [][\A c \in Calls :
              (pc'[c] = "running" /\ pc[c] # "running") => pc[c] = "waiting"]_vars

\* a delete_async raised KeyError in its worker thread, because a concurrent
\* delete removed the key first, and the caller received KeyError
C13_Witness ==
    /\ lastOp.via = "async"
    /\ lastOp.op = "delete"
    /\ thrown = "KeyError"
    /\ ret.exc = "KeyError"

\* every task has made its calls and none is in flight
AllDone ==
    \A c \in Calls :
        /\ pc[c] = "idle"
        /\ \/ caller[c].wrote > 0
           \/ caller[c].prog = "check_then_save" /\ caller[c].seen = "present"

\* the identity the tasks race for
RaceId == caller[1].agg.id

\* the task whose save ran last
LastWriter == CHOOSE c \in Writers : caller[c].wrote = Cardinality(Writers)

\* C15: once the concurrent save_async calls for aggregates with one
\* identity k have all completed, find(k) returns one of these aggregates,
\* the one whose write ran last: k is not absent and holds no other value.
C15_LastWriteWins ==
    ((\A c \in Calls : caller[c].prog = "save") /\ AllDone) =>
        /\ find(storage, RaceId).val \in {caller[c].agg : c \in Calls}
        /\ find(storage, RaceId).val = caller[LastWriter].agg
        /\ exists(storage, RaceId).val

\* both saves have completed, the aggregates differ, and the store holds the
\* aggregate of task 1, whose write ran after that of another task
C15_Witness ==
    /\ \A c \in Calls : caller[c].prog = "save"
    /\ AllDone
    /\ \E c \in Calls : caller[c].agg # caller[1].agg
    /\ caller[1].wrote > 1
    /\ find(storage, RaceId).val = caller[1].agg

\* the other outcome: the store holds the aggregate of another task than 1
C15_OtherOutcome ==
    /\ \A c \in Calls : caller[c].prog = "save"
    /\ AllDone
    /\ caller[1].wrote = 1
    /\ find(storage, RaceId).val # caller[1].agg

\* C17: when every task runs "save(a) if not exists(a.id)" for one identity
\* k, each task that saw k absent saves, whatever the others did meanwhile;
\* of the aggregates saved only the last is in the store, the saves before it
\* are gone without an exception, and k is present at the end.
C17_CheckThenSaveNotAtomic ==
    ((\A c \in Calls : caller[c].prog = "check_then_save") /\ AllDone) =>
        /\ \A c \in Calls : caller[c].seen = "absent" <=> caller[c].wrote > 0
        /\ find(storage, RaceId).val # NoneVal
        /\ Writers # {} => find(storage, RaceId).val = caller[LastWriter].agg
        /\ \A c \in Writers :
               caller[c].agg # caller[LastWriter].agg
                   => caller[c].agg \notin Range(find_all(storage, NoPred).val)

\* two tasks both saw k absent and both saved different aggregates: the one
\* saved first is no longer in the store
C17_Witness ==
    /\ \A c \in Calls : caller[c].prog = "check_then_save"
    /\ max_threads >= 2
    /\ AllDone
    /\ \E c, d \in Calls :
           /\ c # d
           /\ caller[c].seen = "absent" /\ caller[d].seen = "absent"
           /\ caller[c].wrote > 0 /\ caller[d].wrote > caller[c].wrote
           /\ caller[c].agg # caller[d].agg
           /\ find(storage, RaceId).val = caller[d].agg
           /\ caller[c].agg \notin Range(find_all(storage, NoPred).val)

\* a call that waits for a token gets one, and a call that holds a token ends
\* and gives it back
DispatchedCallsComplete ==
    \A c \in Calls :
        /\ (pc[c] \in {"coroutine", "waiting"}) ~> (c \in borrowers)
        /\ (c \in borrowers) ~> (pc[c] = "idle" /\ c \notin borrowers)

\* a call ends only as the method it ran in a worker thread ends
CallsEndInAWorker ==
    [][lastOp'.via = "async" =>
          \E c \in borrowers : pc'[c] = "idle" /\ c \notin borrowers']_vars

\* C16: every async call that is issued and awaited gets a worker slot and
\* completes: a call that waits for a slot is not starved, a call that has
\* a slot runs to its end and releases the slot, and no call ends without
\* having had one.
C16_EveryCallGetsASlotAndCompletes ==
    /\ DispatchedCallsComplete
    /\ CallsEndInAWorker

====
